---------------------------- MODULE Spec2Model ----------------------------
(***************************************************************************)
(* A model of the campspots-ca map script (src/main.js and its variants    *)
(* src/unnamed/part_000, src/unnamed/part_001): the tolerant field         *)
(* resolver, the open/closed and campsite classifiers, the closure-date    *)
(* normaliser, and the page's load handlers and checkbox listeners.        *)
(*                                                                         *)
(* JavaScript strings are sequences of one-character strings, so that      *)
(* trim, toUpperCase, toLowerCase, parseFloat and Number are computed on   *)
(* the characters.  JavaScript numbers are exact decimals (sign, integer   *)
(* digits, fraction digits) or NaN; the inputs are kept to decimals a      *)
(* double holds exactly and prints without an exponent.                    *)
(***************************************************************************)
EXTENDS Integers, Sequences, FiniteSets, TLC

(***************************************************************************)
(* Characters and strings                                                  *)
(***************************************************************************)
\* The upper-case letters with their lower-case forms, and the reverse.
LowerOf ==
  "A" :> "a" @@ "B" :> "b" @@ "C" :> "c" @@ "D" :> "d" @@ "E" :> "e" @@ "F" :> "f" @@
  "G" :> "g" @@ "H" :> "h" @@ "I" :> "i" @@ "J" :> "j" @@ "K" :> "k" @@ "L" :> "l" @@
  "M" :> "m" @@ "N" :> "n" @@ "O" :> "o" @@ "P" :> "p" @@ "Q" :> "q" @@ "R" :> "r" @@
  "S" :> "s" @@ "T" :> "t" @@ "U" :> "u" @@ "V" :> "v" @@ "W" :> "w" @@ "X" :> "x" @@
  "Y" :> "y" @@ "Z" :> "z"

UpperOf ==
  "a" :> "A" @@ "b" :> "B" @@ "c" :> "C" @@ "d" :> "D" @@ "e" :> "E" @@ "f" :> "F" @@
  "g" :> "G" @@ "h" :> "H" @@ "i" :> "I" @@ "j" :> "J" @@ "k" :> "K" @@ "l" :> "L" @@
  "m" :> "M" @@ "n" :> "N" @@ "o" :> "O" @@ "p" :> "P" @@ "q" :> "Q" @@ "r" :> "R" @@
  "s" :> "S" @@ "t" :> "T" @@ "u" :> "U" @@ "v" :> "V" @@ "w" :> "W" @@ "x" :> "X" @@
  "y" :> "Y" @@ "z" :> "Z"

DigitOf ==
  "0" :> 0 @@ "1" :> 1 @@ "2" :> 2 @@ "3" :> 3 @@ "4" :> 4 @@
  "5" :> 5 @@ "6" :> 6 @@ "7" :> 7 @@ "8" :> 8 @@ "9" :> 9

DigitChars == <<"0","1","2","3","4","5","6","7","8","9">>

WhiteSpace == {" ", "\t", "\n"}

IsDigit(c) == c \in DOMAIN DigitOf

\* The value 0..9 of a digit character.
DigitVal(c) == DigitOf[c]

LowerChar(c) == IF c \in DOMAIN LowerOf THEN LowerOf[c] ELSE c

UpperChar(c) == IF c \in DOMAIN UpperOf THEN UpperOf[c] ELSE c

\* String.prototype.toLowerCase / toUpperCase, character by character.
toLowerCase(s) == [i \in DOMAIN s |-> LowerChar(s[i])]

toUpperCase(s) == [i \in DOMAIN s |-> UpperChar(s[i])]

\* The number of leading / trailing white-space characters of s.
RECURSIVE LeadingWs(_)
LeadingWs(s) ==
  IF s # <<>> /\ Head(s) \in WhiteSpace THEN 1 + LeadingWs(Tail(s)) ELSE 0

RECURSIVE TrailingWs(_)
TrailingWs(s) ==
  IF s # <<>> /\ s[Len(s)] \in WhiteSpace
    THEN 1 + TrailingWs(SubSeq(s, 1, Len(s) - 1))
    ELSE 0

trimStart(s) == SubSeq(s, LeadingWs(s) + 1, Len(s))

\* String.prototype.trim.
trim(s) ==
  LET t == trimStart(s) IN SubSeq(t, 1, Len(t) - TrailingWs(t))

\* The longest prefix of s made of digits.
RECURSIVE DigitPrefix(_)
DigitPrefix(s) ==
  IF s # <<>> /\ IsDigit(Head(s)) THEN <<Head(s)>> \o DigitPrefix(Tail(s)) ELSE <<>>

\* Digits without leading zeros ("0" for zero) and without trailing zeros.
RECURSIVE StripLeadingZeros(_)
StripLeadingZeros(d) ==
  IF Len(d) > 1 /\ Head(d) = "0" THEN StripLeadingZeros(Tail(d))
  ELSE IF d = <<>> THEN <<"0">> ELSE d

RECURSIVE StripTrailingZeros(_)
StripTrailingZeros(d) ==
  IF d # <<>> /\ d[Len(d)] = "0"
    THEN StripTrailingZeros(SubSeq(d, 1, Len(d) - 1))
    ELSE d

(***************************************************************************)
(* JavaScript values: undefined, null, strings, numbers, objects           *)
(***************************************************************************)
Undefined == [t |-> "undefined"]

Null == [t |-> "null"]

Str(s) == [t |-> "string", s |-> s]

NaN == [t |-> "number", nan |-> TRUE, neg |-> FALSE, int |-> <<"0">>, frac |-> <<>>]

\* A finite number: (-1)^neg * int.frac, digits normalised; -0 is kept as 0.
Num(neg, int, frac) ==
  LET i == StripLeadingZeros(int)
      f == StripTrailingZeros(frac)
  IN  [t |-> "number", nan |-> FALSE,
       neg |-> neg /\ ~(i = <<"0">> /\ f = <<>>), int |-> i, frac |-> f]

\* An object: its own enumerable string keys in insertion order, with values.
Obj(kv) == [t |-> "object", kv |-> kv]

\* An array.
Arr(items) == [t |-> "array", items |-> items]

\* What res.json() rejects with: the body is not JSON.
NotJson == [t |-> "syntaxerror"]

IsNullish(v) == v.t \in {"undefined", "null"}

\* Object.keys(o); a primitive has no key that any field name matches.
Keys(o) == IF o.t = "object" THEN [i \in DOMAIN o.kv |-> o.kv[i][1]] ELSE <<>>

\* o[key]: the value of an own key, undefined when there is none (and for a
\* primitive string or number, whose own keys are never the names used here).
Get(o, key) ==
  IF o.t = "object" /\ \E i \in DOMAIN o.kv : o.kv[i][1] = key
    THEN o.kv[CHOOSE i \in DOMAIN o.kv : o.kv[i][1] = key][2]
    ELSE Undefined

IsZero(n) == ~n.nan /\ n.int = <<"0">> /\ n.frac = <<>>

\* ToBoolean: !v is ~Truthy(v).
Truthy(v) ==
  CASE v.t = "undefined" -> FALSE
    [] v.t = "null"      -> FALSE
    [] v.t = "string"    -> v.s # <<>>
    [] v.t = "number"    -> ~v.nan /\ ~IsZero(v)
    [] OTHER             -> TRUE

(***************************************************************************)
(* Conversions: String(v), Number(s), parseFloat(s), and the comparison >  *)
(***************************************************************************)
\* The decimal digits of a natural number.
RECURSIVE NatDigits(_)
NatDigits(n) ==
  IF n < 10 THEN <<DigitChars[n + 1]>>
  ELSE NatDigits(n \div 10) \o <<DigitChars[(n % 10) + 1]>>

\* The number value of an integer literal of the source.
FromInt(n) == IF n < 0 THEN Num(TRUE, NatDigits(-n), <<>>) ELSE Num(FALSE, NatDigits(n), <<>>)

\* x < y for digit strings of one length.
DigitsLess(x, y) ==
  \E i \in DOMAIN x :
    /\ DigitVal(x[i]) < DigitVal(y[i])
    /\ \A j \in 1..(i - 1) : x[j] = y[j]

IntLess(x, y) == Len(x) < Len(y) \/ (Len(x) = Len(y) /\ DigitsLess(x, y))

PadZeros(d, n) == [i \in 1..n |-> IF i <= Len(d) THEN d[i] ELSE "0"]

FracLess(x, y) ==
  LET n == IF Len(x) > Len(y) THEN Len(x) ELSE Len(y)
  IN  DigitsLess(PadZeros(x, n), PadZeros(y, n))

\* |a| < |b|
MagLess(a, b) == IntLess(a.int, b.int) \/ (a.int = b.int /\ FracLess(a.frac, b.frac))

\* a < b on numbers; every comparison with NaN is false.
Less(a, b) ==
  /\ ~a.nan
  /\ ~b.nan
  /\ CASE a.neg /\ ~b.neg  -> TRUE
       [] ~a.neg /\ b.neg  -> FALSE
       [] ~a.neg /\ ~b.neg -> MagLess(a, b)
       [] OTHER            -> MagLess(b, a)

\* a > b
Greater(a, b) == Less(b, a)

\* Number::toString for a decimal printed without exponent.
NumToString(n) ==
  IF n.nan THEN <<"N","a","N">>
  ELSE (IF n.neg THEN <<"-">> ELSE <<>>) \o n.int
       \o (IF n.frac = <<>> THEN <<>> ELSE <<".">> \o n.frac)

\* String(v)
String(v) ==
  CASE v.t = "string"    -> v.s
    [] v.t = "number"    -> NumToString(v)
    [] v.t = "null"      -> <<"n","u","l","l">>
    [] v.t = "undefined" -> <<"u","n","d","e","f","i","n","e","d">>
    [] OTHER             -> <<"[","o","b","j","e","c","t"," ","O","b","j","e","c","t","]">>

\* The longest prefix of s that is a signed decimal literal (sign, digits,
\* optional fraction): ok is false when there is none.  Exponents, hex
\* literals and "Infinity" are outside the inputs of this model.
ParseDecimal(s) ==
  LET signed   == s # <<>> /\ Head(s) \in {"+", "-"}
      neg      == signed /\ Head(s) = "-"
      body     == IF signed THEN Tail(s) ELSE s
      int      == DigitPrefix(body)
      afterInt == SubSeq(body, Len(int) + 1, Len(body))
      dotted   == afterInt # <<>> /\ Head(afterInt) = "."
      frac     == IF dotted THEN DigitPrefix(Tail(afterInt)) ELSE <<>>
      useDot   == dotted /\ (int # <<>> \/ frac # <<>>)
      rest     == IF useDot
                    THEN SubSeq(afterInt, Len(frac) + 2, Len(afterInt))
                    ELSE afterInt
  IN  [ok |-> int # <<>> \/ frac # <<>>, neg |-> neg, int |-> int,
       frac |-> IF useDot THEN frac ELSE <<>>, rest |-> rest]

\* parseFloat(s): leading white space skipped, the longest decimal prefix
\* parsed, NaN when there is none.
parseFloat(s) ==
  LET p == ParseDecimal(trimStart(s))
  IN  IF p.ok THEN Num(p.neg, p.int, p.frac) ELSE NaN

\* Number(s) for a string: white space trimmed, "" is 0, the whole rest must
\* be a decimal literal, NaN otherwise.
Number(s) ==
  LET t == trim(s)
      p == ParseDecimal(t)
  IN  IF t = <<>> THEN Num(FALSE, <<"0">>, <<>>)
      ELSE IF p.ok /\ p.rest = <<>> THEN Num(p.neg, p.int, p.frac)
      ELSE NaN

(***************************************************************************)
(* Field names of the two schemas (src/main.js:39, src/unnamed/part_000:51)*)
(***************************************************************************)
CLOSURE_IND == <<"C","L","O","S","U","R","E","_","I","N","D">>

CLOSR_IND == <<"C","L","O","S","R","_","I","N","D">>

DEFINED_CAMPSITES == <<"D","E","F","I","N","E","D","_","C","A","M","P","S","I","T","E","S">>

DFND_CAMP == <<"D","F","N","D","_","C","A","M","P">>

properties == <<"p","r","o","p","e","r","t","i","e","s">>

geometry == <<"g","e","o","m","e","t","r","y">>

features == <<"f","e","a","t","u","r","e","s">>

\* A GeoJSON feature.
Feature(props, geom) == Obj(<< <<properties, props>>, <<geometry, geom>> >>)

\* A geometry is opaque here: an object, or null for an unlocated feature.
Point == Obj(<<>>)

(***************************************************************************)
(* The field resolver and the two classifiers                              *)
(***************************************************************************)
\* The inner loop of getField: the value of the first key, in Object.keys
\* order, that equals name up to case and holds neither null nor undefined.
caseInsensitive(props, name) ==
  LET lower == toLowerCase(name)
      keys  == Keys(props)
      hits  == {i \in DOMAIN keys :
                  /\ toLowerCase(keys[i]) = lower
                  /\ ~IsNullish(Get(props, keys[i]))}
  IN  IF hits = {} THEN Undefined
      ELSE Get(props, keys[CHOOSE i \in hits : \A j \in hits : i <= j])

\* getFieldLoop with a truthiness test in place of the two comparisons with
\* undefined and null: a stored 0 or "" is passed over.
RECURSIVE getFieldLoopTruthy(_, _)
getFieldLoopTruthy(props, names) ==
  IF names = <<>> THEN Undefined
  ELSE LET name  == Head(names)
           exact == Get(props, name)
           val   == caseInsensitive(props, name)
       IN  IF Truthy(exact) THEN exact
           ELSE IF ~IsNullish(val) THEN val
           ELSE getFieldLoopTruthy(props, Tail(names))

\* The outer loop of getField over the candidate names, in order.
RECURSIVE getFieldLoop(_, _)
getFieldLoop(props, names) ==
  IF names = <<>> THEN Undefined
  ELSE LET name  == Head(names)
           exact == Get(props, name)
           val   == caseInsensitive(props, name)
       IN  IF ~IsNullish(exact) THEN exact
           ELSE IF ~IsNullish(val) THEN val
           ELSE getFieldLoop(props, Tail(names))

getField(props, names) ==
  IF ~Truthy(props) THEN Undefined ELSE getFieldLoop(props, names)

\* featureOrProps && featureOrProps.properties ? featureOrProps.properties
\*                                             : featureOrProps
propsOf(featureOrProps) ==
  IF Truthy(featureOrProps) /\ Truthy(Get(featureOrProps, properties))
    THEN Get(featureOrProps, properties)
    ELSE featureOrProps

\* isClosed without the trim.
isClosedNoTrim(featureOrProps) ==
  LET props == propsOf(featureOrProps)
      ind   == getField(props, <<CLOSURE_IND, CLOSR_IND>>)
  IN  IF IsNullish(ind) THEN FALSE
      ELSE toUpperCase(String(ind)) = <<"Y">>

isClosed(featureOrProps) ==
  LET props == propsOf(featureOrProps)
      ind   == getField(props, <<CLOSURE_IND, CLOSR_IND>>)
  IN  IF IsNullish(ind) THEN FALSE
      ELSE toUpperCase(trim(String(ind))) = <<"Y">>

\* isCampsite with >= in place of >.
isCampsiteOrZero(featureOrProps) ==
  LET props == propsOf(featureOrProps)
      n     == getField(props, <<DEFINED_CAMPSITES, DFND_CAMP>>)
      m     == IF n.t = "string" THEN parseFloat(n.s) ELSE n
  IN  IF IsNullish(n) THEN FALSE
      ELSE IF m.t # "number" THEN FALSE
      ELSE IF m.nan THEN FALSE
      ELSE ~Less(m, FromInt(0))

isCampsite(featureOrProps) ==
  LET props == propsOf(featureOrProps)
      n     == getField(props, <<DEFINED_CAMPSITES, DFND_CAMP>>)
      m     == IF n.t = "string" THEN parseFloat(n.s) ELSE n
  IN  IF IsNullish(n) THEN FALSE
      ELSE IF m.t # "number" THEN FALSE
      ELSE IF m.nan THEN FALSE
      ELSE Greater(m, FromInt(0))

(***************************************************************************)
(* State                                                                   *)
(***************************************************************************)
VARIABLES
  \* --- a call of one of the pure functions ---
  arg,          \* the argument: a property bag, a feature or a date value
  cand,         \* the candidate names passed to getField
  call,         \* "none" before the call, then the function called
  ret,          \* what the call returned
  via,          \* which Date constructor formatClosureDate used
  lenientDates, \* the engine: does its implementation-defined date parser
                \* accept a non-ISO string that holds a digit
  \* --- the page ---
  variant,      \* which script runs: "main", "campsites", "crown" or "latlng"
  sitesPc,      \* the primary fetch chain: fetching, reading, done, failed
  sitesRes,     \* how the primary fetch settled: none, neterr, ok, notok
  sitesData,    \* the parsed payload handed to the second then-callback
  crownPc,      \* the Crown-land fetch chain
  crownRes,     \* how the Crown-land fetch settled
  crownData,    \* the parsed Crown-land payload
  openLayer,    \* the features in openLayer, in the order added
  closedLayer,  \* the features in closedLayer
  crownLayer,   \* the features in crownLayer
  popups,       \* the popup bound to each layer of openLayer and closedLayer
  onMap,        \* which of the three layers the map holds
  fitted,       \* has map.fitBounds moved the view
  checked,      \* the checked state of each checkbox
  changed,      \* history: which of the open and the closed checkbox have
                \* had a change event
  log,          \* the console messages written so far
  requests      \* the number of fetch calls made per source

pureVars == <<arg, cand, call, ret, via, lenientDates>>

pageVars ==
  <<variant, sitesPc, sitesRes, sitesData, crownPc, crownRes, crownData,
    openLayer, closedLayer, crownLayer, popups, onMap, fitted, checked, changed,
    log, requests>>

vars == <<pureVars, pageVars>>

(***************************************************************************)
(* The closure-date normaliser                                             *)
(***************************************************************************)
\* The heuristic threshold of formatClosureDate.
EpochThreshold == 1000000000

\* The largest time value of a Date: 8.64e15 ms (ECMAScript TimeClip).
TimeClipMax ==
  Num(FALSE, <<"8","6","4","0","0","0","0","0","0","0","0","0","0","0","0","0">>, <<>>)

\* new Date(number): valid unless NaN or beyond the time-value range.
DateFromNumber(n) ==
  [valid |-> ~n.nan /\ ~MagLess(TimeClipMax, n), how |-> "epoch", text |-> NumToString(n)]

TwoDigits(s, i) == 10 * DigitVal(s[i]) + DigitVal(s[i + 1])

\* The date-only forms of the ECMAScript date-time string format: YYYY,
\* YYYY-MM, YYYY-MM-DD, with a month 01..12 and a day every month has.
IsIsoDate(s) ==
  /\ Len(s) \in {4, 7, 10}
  /\ \A i \in 1..4 : IsDigit(s[i])
  /\ Len(s) >= 7 =>
       /\ s[5] = "-"
       /\ IsDigit(s[6]) /\ IsDigit(s[7])
       /\ TwoDigits(s, 6) \in 1..12
  /\ Len(s) = 10 =>
       /\ s[8] = "-"
       /\ IsDigit(s[9]) /\ IsDigit(s[10])
       /\ TwoDigits(s, 9) \in 1..28

HasDigit(s) == \E i \in DOMAIN s : IsDigit(s[i])

\* new Date(string): an ISO date is valid in every engine; any other string
\* is parsed in an implementation-defined way, which no engine accepts
\* without a digit in it and which this engine accepts iff lenientDates.
DateFromString(s) ==
  [valid |-> IsIsoDate(s) \/ (lenientDates /\ HasDigit(s)), how |-> "parse", text |-> s]

\* Date.prototype.toLocaleDateString: some non-empty rendering of the date
\* in the locale's format, written here as date(<what was parsed>).
toLocaleDateString(d) == <<"d","a","t","e","(">> \o d.text \o <<")">>

\* closureDate comparing the magnitude of the number with the threshold.
closureDateMagnitude(value) ==
  LET asString    == String(value)
      maybeNumber == Number(asString)
  IN  IF ~maybeNumber.nan /\ MagLess(FromInt(EpochThreshold), maybeNumber)
        THEN DateFromNumber(maybeNumber)
        ELSE DateFromString(asString)

\* Lines 46-53: the Date that formatClosureDate builds for a value.
closureDate(value) ==
  LET asString    == String(value)
      maybeNumber == Number(asString)
  IN  IF ~maybeNumber.nan /\ Greater(maybeNumber, FromInt(EpochThreshold))
        THEN DateFromNumber(maybeNumber)
        ELSE DateFromString(asString)

\* formatClosureDate formatting the date without the validity test: an
\* invalid Date prints as "Invalid Date".
formatClosureDateUnchecked(value) ==
  IF ~Truthy(value) THEN <<>>
  ELSE LET d == closureDate(value)
       IN  IF ~d.valid THEN <<"I","n","v","a","l","i","d"," ","D","a","t","e">>
           ELSE toLocaleDateString(d)

formatClosureDate(value) ==
  IF ~Truthy(value) THEN <<>>
  ELSE LET d == closureDate(value)
       IN  IF ~d.valid THEN String(value) ELSE toLocaleDateString(d)

(***************************************************************************)
(* The popup formatter                                                     *)
(***************************************************************************)
PROJECT_NAME == <<"P","R","O","J","E","C","T","_","N","A","M","E">>

PROJECT_NM == <<"P","R","O","J","E","C","T","_","N","M">>

SITE_LOCATION == <<"S","I","T","E","_","L","O","C","A","T","I","O","N">>

SITE_LOC == <<"S","I","T","E","_","L","O","C">>

SITE_DESCRIPTION == <<"S","I","T","E","_","D","E","S","C","R","I","P","T","I","O","N">>

ST_DESC == <<"S","T","_","D","E","S","C">>

DRIVING_DIRECTIONS == <<"D","R","I","V","I","N","G","_","D","I","R","E","C","T","I","O","N","S">>

DRV_DIRCTN == <<"D","R","V","_","D","I","R","C","T","N">>

CLOSURE_TYPE == <<"C","L","O","S","U","R","E","_","T","Y","P","E">>

CLOSR_TYPE == <<"C","L","O","S","R","_","T","Y","P","E">>

CLOSURE_DATE == <<"C","L","O","S","U","R","E","_","D","A","T","E">>

CLOSR_DT == <<"C","L","O","S","R","_","D","T">>

CLOSURE_COMMENT == <<"C","L","O","S","U","R","E","_","C","O","M","M","E","N","T">>

CLOSR_COM == <<"C","L","O","S","R","_","C","O","M">>

FOREST_FILE_ID == <<"F","O","R","E","S","T","_","F","I","L","E","_","I","D">>

F_FILE_ID == <<"F","_","F","I","L","E","_","I","D">>

\* a || b
Or(a, b) == IF Truthy(a) THEN a ELSE b

\* The literal texts of the popup template.
UnnamedSite == Str(<<"U","n","n","a","m","e","d"," ","r","e","c","r","e","a","t","i","o","n"," ","s","i","t","e">>)

StatusClosed == <<"S","t","a","t","u","s",":"," ","C","L","O","S","E","D">>

StatusOpen == <<"S","t","a","t","u","s",":"," ","O","p","e","n"," ","(","c","h","e","c","k"," ","l","a","t","e","s","t"," ","i","n","f","o",")">>

\* One piece of the popup's markup: which slot of the template it fills and
\* the text interpolated into it (${x} is String(x)).
Segment(seg, text) == [seg |-> seg, text |-> text]

\* cond ? `...${value}...` : ""  -- an empty string adds nothing to the popup.
SegmentIf(cond, seg, text) == IF cond THEN <<Segment(seg, text)>> ELSE <<>>

\* The template of lines 105-149, given the values resolved for its slots:
\* statusHtml (status, then reason, date and comment when closed),
\* campsiteHtml, locationHtml, descHtml, dirHtml, officialLinksHtml.
popupHtml(name, closed, closureTypeV, closureDateV, closureCommentV, campsites, location, description, directions, forestId) ==
  <<Segment("name", String(name))>>
    \o <<Segment("status", IF closed THEN StatusClosed ELSE StatusOpen)>>
    \o SegmentIf(closed /\ Truthy(closureTypeV), "reason", String(closureTypeV))
    \o SegmentIf(closed /\ Truthy(closureDateV), "since", formatClosureDate(closureDateV))
    \o SegmentIf(closed /\ Truthy(closureCommentV), "comment", String(closureCommentV))
    \o SegmentIf(~IsNullish(campsites), "campsites", String(campsites))
    \o SegmentIf(Truthy(location), "location", String(location))
    \o SegmentIf(Truthy(description), "description", String(description))
    \o SegmentIf(Truthy(directions), "directions", String(directions))
    \o SegmentIf(Truthy(forestId), "betaLink", String(forestId))
    \o SegmentIf(Truthy(forestId), "oldLink", String(forestId))

\* onEachFeature without the fallbacks after getField: a name, location or
\* site id that is not found stays undefined.
onEachFeatureNoFallback(feature) ==
  LET props == Or(Get(feature, properties), Obj(<<>>))
  IN  popupHtml(getField(props, <<PROJECT_NAME, PROJECT_NM>>),
                isClosed(props),
                getField(props, <<CLOSURE_TYPE, CLOSR_TYPE>>),
                getField(props, <<CLOSURE_DATE, CLOSR_DT>>),
                getField(props, <<CLOSURE_COMMENT, CLOSR_COM>>),
                getField(props, <<DEFINED_CAMPSITES, DFND_CAMP>>),
                getField(props, <<SITE_LOCATION, SITE_LOC>>),
                getField(props, <<SITE_DESCRIPTION, ST_DESC>>),
                getField(props, <<DRIVING_DIRECTIONS, DRV_DIRCTN>>),
                getField(props, <<FOREST_FILE_ID, F_FILE_ID>>))

\* onEachFeature: the popup bound to the layer of a feature.
onEachFeature(feature) ==
  LET props == Or(Get(feature, properties), Obj(<<>>))
  IN  popupHtml(Or(getField(props, <<PROJECT_NAME, PROJECT_NM>>), UnnamedSite),
                isClosed(props),
                Or(getField(props, <<CLOSURE_TYPE, CLOSR_TYPE>>), Str(<<>>)),
                Or(getField(props, <<CLOSURE_DATE, CLOSR_DT>>), Str(<<>>)),
                Or(getField(props, <<CLOSURE_COMMENT, CLOSR_COM>>), Str(<<>>)),
                getField(props, <<DEFINED_CAMPSITES, DFND_CAMP>>),
                Or(getField(props, <<SITE_LOCATION, SITE_LOC>>), Str(<<>>)),
                Or(getField(props, <<SITE_DESCRIPTION, ST_DESC>>), Str(<<>>)),
                Or(getField(props, <<DRIVING_DIRECTIONS, DRV_DIRCTN>>), Str(<<>>)),
                Or(getField(props, <<FOREST_FILE_ID, F_FILE_ID>>), Str(<<>>)))

\* The script that reads LATITUDE and LONGITUDE: getProps.
getProps(feature) ==
  IF Truthy(feature) /\ Truthy(Get(feature, properties))
    THEN Get(feature, properties)
    ELSE Obj(<<>>)

\* The isClosed of that script: the exact keys only, no getField.
isClosedLatLng(featureOrProps) ==
  LET props == propsOf(featureOrProps)
      ind   == Or(Or(Get(props, CLOSURE_IND), Get(props, CLOSR_IND)), Str(<<>>))
  IN  toUpperCase(trim(String(ind))) = <<"Y">>

\* a ?? b
Coalesce(a, b) == IF IsNullish(a) THEN b ELSE a

\* The buildPopupHtml of that script: the same template, its slots read
\* from the exact keys.
buildPopupHtml(props, closed) ==
  popupHtml(Or(Or(Get(props, PROJECT_NAME), Get(props, PROJECT_NM)), UnnamedSite),
            closed,
            Or(Or(Get(props, CLOSURE_TYPE), Get(props, CLOSR_TYPE)), Str(<<>>)),
            Or(Or(Get(props, CLOSURE_DATE), Get(props, CLOSR_DT)), Str(<<>>)),
            Or(Or(Get(props, CLOSURE_COMMENT), Get(props, CLOSR_COM)), Str(<<>>)),
            Coalesce(Get(props, DEFINED_CAMPSITES), Get(props, DFND_CAMP)),
            Or(Or(Get(props, SITE_LOCATION), Get(props, SITE_LOC)), Str(<<>>)),
            Or(Or(Get(props, SITE_DESCRIPTION), Get(props, ST_DESC)), Str(<<>>)),
            Or(Or(Get(props, DRIVING_DIRECTIONS), Get(props, DRV_DIRCTN)), Str(<<>>)),
            Or(Get(props, FOREST_FILE_ID), Get(props, F_FILE_ID)))

(***************************************************************************)
(* Inputs of the pure functions                                            *)
(***************************************************************************)
\* The largest number of keys of a property bag.
MaxKeys == 2

closr_ind == <<"c","l","o","s","r","_","i","n","d">>

Closr_Ind == <<"C","l","o","s","r","_","I","n","d">>

dfnd_camp == <<"d","f","n","d","_","c","a","m","p">>

IndicatorKeys == {CLOSURE_IND, CLOSR_IND, closr_ind, Closr_Ind}

IndicatorValues ==
  {Null, Str(<<"Y">>), Str(<<"y">>), Str(<<" ","Y"," ">>), Str(<<" ","y">>), Str(<<"N">>), Str(<<>>), Str(<<"a","b","c">>), Num(FALSE, <<"0">>, <<>>)}

CountKeys == {DEFINED_CAMPSITES, DFND_CAMP, dfnd_camp}

CountValues ==
  {Null, Str(<<"0">>), Num(FALSE, <<"0">>, <<>>), Num(TRUE, <<"1">>, <<>>), Str(<<"a","b","c">>), Str(<<"1">>), Num(FALSE, <<"2">>, <<"5">>), Num(FALSE, <<"1","0","0">>, <<>>), Str(<<>>), Str(<<" ","3">>), Str(<<"-","2">>)}

\* Key-value lists of at most MaxKeys entries over keys K and values V.
Entries(K, V) == UNION {[1..n -> K \X V] : n \in 0..MaxKeys}

\* An object holds a key once.
DistinctKeys(kv) == \A i, j \in DOMAIN kv : kv[i][1] = kv[j][1] => i = j

\* arg is a property bag whose keys are all names of the closure indicator,
\* or all names of the campsite count.
ArgIsBag ==
  \E kv \in Entries(IndicatorKeys, IndicatorValues) \cup Entries(CountKeys, CountValues) :
    /\ DistinctKeys(kv)
    /\ arg = Obj(kv)

\* Bags in which a key named properties stands beside a classifier key.
NestedKeys == {CLOSURE_IND, DEFINED_CAMPSITES, properties}

NestedValues ==
  {Str(<<"Y">>), Str(<<"2">>), Null, Obj(<< <<CLOSR_IND, Str(<<"N">>)>> >>)}

ArgIsNestedBag ==
  \E kv \in Entries(NestedKeys, NestedValues) :
    /\ DistinctKeys(kv)
    /\ arg = Obj(kv)

\* The property bags shown in a popup: for each slot of the template, no
\* key at all or one of a few keys and values, in the long or the short
\* spelling of the name.
drv_dirctn == <<"d","r","v","_","d","i","r","c","t","n">>

OneOf(key, values) == {<<>>} \cup {<< <<key, v>> >> : v \in values}

NameOptions == OneOf(PROJECT_NAME, {Str(<<"L","a","k","e">>)}) \cup OneOf(PROJECT_NM, {Str(<<>>)})

StatusOptions == OneOf(CLOSR_IND, {Str(<<"Y">>)}) \cup OneOf(CLOSURE_IND, {Str(<<"N">>)})

ReasonOptions == OneOf(CLOSR_TYPE, {Str(<<"F","i","r","e">>)})

SinceOptions == OneOf(CLOSURE_DATE, {Num(FALSE, <<"1","7","0","0","0","0","0","0","0","0","0","0","0">>, <<>>)})

CommentOptions == OneOf(CLOSURE_COMMENT, {Str(<<"W","a","s","h","o","u","t">>)})

CampsiteOptions == OneOf(DEFINED_CAMPSITES, {Num(FALSE, <<"0">>, <<>>), Null})

LocationOptions == OneOf(SITE_LOC, {Str(<<"K","m"," ","5">>)})

DescriptionOptions == OneOf(SITE_DESCRIPTION, {Str(<<"Q","u","i","e","t">>), Str(<<>>)})

DirectionsOptions == OneOf(drv_dirctn, {Str(<<"L","e","f","t">>)})

SiteIdOptions == OneOf(FOREST_FILE_ID, {Str(<<"R","E","C","5","8","1","0">>)})

ArgIsPopupBag ==
  \E n \in NameOptions, st \in StatusOptions, r \in ReasonOptions, d \in SinceOptions,
     c \in CommentOptions, k \in CampsiteOptions, l \in LocationOptions,
     ds \in DescriptionOptions, dr \in DirectionsOptions, id \in SiteIdOptions :
    arg = Obj(n \o st \o r \o d \o c \o k \o l \o ds \o dr \o id)

CandidateLists ==
  {<<CLOSURE_IND, CLOSR_IND>>, <<CLOSR_IND, CLOSURE_IND>>, <<CLOSR_IND>>,
   <<DEFINED_CAMPSITES, DFND_CAMP>>}

DateValues ==
  {Undefined, Null, NaN, Str(<<>>), Num(FALSE, <<"0">>, <<>>), Str(<<" ">>), Str(<<"n","o","t"," ","a"," ","d","a","t","e">>),
   Num(FALSE, <<"1","7","0","0","0","0","0","0","0","0","0","0","0">>, <<>>), Str(<<"1","7","0","0","0","0","0","0","0","0","0","0","0">>),
   Num(FALSE, <<"1","0","0","0","0","0","0","0","0","0">>, <<>>), Num(FALSE, <<"1","0","0","0","0","0","0","0","0","1">>, <<>>), Str(<<"1","0","0","0","0","0","0","0","0","0",".","5">>),
   Num(FALSE, <<"9","9","9","9","9","9","9","9","9">>, <<>>), Num(TRUE, <<"2","0","0","0","0","0","0","0","0","0">>, <<>>), Str(<<"-","1","7","0","0","0","0","0","0","0","0","0","0","0">>),
   Str(<<"9","0","0","0","0","0","0","0","0","0","0","0","0","0","0","0">>), Num(FALSE, <<"2">>, <<"5">>),
   Str(<<"2","0","2","4","-","0","5","-","0","1">>), Str(<<"2","0","2","4">>), Str(<<"5">>), Str(<<"1","2","a","b","c">>), Str(<<"M","a","y"," ","1">>)}

(***************************************************************************)
(* One call of a pure function on one input                                *)
(***************************************************************************)
PageIdle ==
  /\ variant = "main"
  /\ sitesPc = "idle" /\ sitesRes = "none" /\ sitesData = Undefined
  /\ crownPc = "idle" /\ crownRes = "none" /\ crownData = Undefined
  /\ openLayer = <<>> /\ closedLayer = <<>> /\ crownLayer = <<>>
  /\ popups = [open |-> <<>>, closed |-> <<>>]
  /\ onMap = {} /\ fitted = FALSE
  /\ checked = [c \in {"open", "closed", "crown"} |-> FALSE]
  /\ changed = {}
  /\ log = {}
  /\ requests = [s \in {"sites", "crown"} |-> 0]

PureInit ==
  /\ \/ ArgIsBag /\ lenientDates = FALSE
     \/ ArgIsNestedBag /\ lenientDates = FALSE
     \/ ArgIsPopupBag /\ lenientDates = FALSE
     \/ arg \in DateValues /\ lenientDates \in BOOLEAN
  /\ cand = <<>>
  /\ call = "none"
  /\ ret = Undefined
  /\ via = "none"
  /\ PageIdle

CallGetField ==
  /\ call = "none"
  /\ arg.t \in {"object", "null", "undefined"}
  /\ \E names \in CandidateLists :
       /\ cand' = names
       /\ ret' = getField(arg, names)
  /\ call' = "getField"
  /\ UNCHANGED <<arg, via, lenientDates, pageVars>>

CallIsClosed ==
  /\ call = "none"
  /\ arg.t \in {"object", "null", "undefined"}
  /\ ret' = isClosed(arg)
  /\ call' = "isClosed"
  /\ UNCHANGED <<arg, cand, via, lenientDates, pageVars>>

CallIsCampsite ==
  /\ call = "none"
  /\ arg.t \in {"object", "null", "undefined"}
  /\ ret' = isCampsite(arg)
  /\ call' = "isCampsite"
  /\ UNCHANGED <<arg, cand, via, lenientDates, pageVars>>

CallFormatClosureDate ==
  /\ call = "none"
  /\ arg.t # "object"
  /\ ret' = formatClosureDate(arg)
  /\ via' = IF Truthy(arg) THEN closureDate(arg).how ELSE "none"
  /\ call' = "formatClosureDate"
  /\ UNCHANGED <<arg, cand, lenientDates, pageVars>>

\* isClosed called on the feature whose property bag is arg.
CallIsClosedOnFeature ==
  /\ call = "none"
  /\ arg.t \in {"object", "null", "undefined"}
  /\ ret' = isClosed(Feature(arg, Point))
  /\ call' = "isClosedOnFeature"
  /\ UNCHANGED <<arg, cand, via, lenientDates, pageVars>>

CallIsCampsiteOnFeature ==
  /\ call = "none"
  /\ arg.t \in {"object", "null", "undefined"}
  /\ ret' = isCampsite(Feature(arg, Point))
  /\ call' = "isCampsiteOnFeature"
  /\ UNCHANGED <<arg, cand, via, lenientDates, pageVars>>

\* onEachFeature called on the feature whose property bag is arg.
CallOnEachFeature ==
  /\ call = "none"
  /\ arg.t \in {"object", "null", "undefined"}
  /\ ret' = onEachFeature(Feature(arg, Point))
  /\ call' = "onEachFeature"
  /\ UNCHANGED <<arg, cand, via, lenientDates, pageVars>>

\* buildPopupHtml called as the forEach callback calls it (lines 138, 156
\* and 177) for the feature whose property bag is arg.
CallBuildPopupHtml ==
  /\ call = "none"
  /\ arg.t \in {"object", "null", "undefined"}
  /\ LET props == getProps(Feature(arg, Point))
     IN  ret' = buildPopupHtml(props, isClosedLatLng(props))
  /\ call' = "buildPopupHtml"
  /\ UNCHANGED <<arg, cand, via, lenientDates, pageVars>>

PureNext ==
  \/ CallGetField
  \/ CallIsClosed
  \/ CallIsCampsite
  \/ CallFormatClosureDate
  \/ CallIsClosedOnFeature
  \/ CallIsCampsiteOnFeature
  \/ CallOnEachFeature
  \/ CallBuildPopupHtml

PureSpec == PureInit /\ [][PureNext]_vars

(***************************************************************************)
(* Claims about the pure functions (checked under PureSpec)                *)
(***************************************************************************)
IsBag(v) == v.t = "object"

\* A bag the classifiers read as a bag: it holds no truthy value under the
\* key properties.  The bags that do are the subject of C12.
IsPlainBag(v) == IsBag(v) /\ ~Truthy(Get(v, properties))

\* What one candidate name resolves to in a bag, stated from the contract:
\* the exact key when it holds a value, else the first key in key order
\* that matches up to case and holds a value, else nothing.
Resolves(bag, name) ==
  LET hits == {i \in DOMAIN bag.kv :
                 /\ toLowerCase(bag.kv[i][1]) = toLowerCase(name)
                 /\ ~IsNullish(bag.kv[i][2])}
      exact == {i \in hits : bag.kv[i][1] = name}
  IN  IF exact # {} THEN bag.kv[CHOOSE i \in exact : TRUE][2]
      ELSE IF hits # {} THEN bag.kv[CHOOSE i \in hits : \A j \in hits : i <= j][2]
      ELSE Undefined

\* The value of the first candidate, in list order, that resolves.
FirstResolved(bag, names) ==
  LET ok == {k \in DOMAIN names : ~IsNullish(Resolves(bag, names[k]))}
  IN  IF ok = {} THEN Undefined
      ELSE Resolves(bag, names[CHOOSE k \in ok : \A j \in ok : k <= j])

\* C1: getField returns the value of the first candidate, in list order,
\* that has a non-null, non-undefined value, the exact key being looked at
\* before any key matching up to case; a stored 0 or "" is returned as is,
\* and undefined is returned only when no candidate resolves.  With
\* candidates [CLOSURE_IND, CLOSR_IND], a bag holding only closr_ind: "Y"
\* gives "Y".
C1_GetFieldFirstResolved ==
  (call = "getField" /\ IsBag(arg)) =>
    /\ ret = FirstResolved(arg, cand)
    /\ ret = Undefined <=>
         \A k \in DOMAIN cand : \A i \in DOMAIN arg.kv :
           toLowerCase(arg.kv[i][1]) = toLowerCase(cand[k]) => IsNullish(arg.kv[i][2])
    /\ (arg = Obj(<< <<closr_ind, Str(<<"Y">>)>> >>) /\ cand = <<CLOSURE_IND, CLOSR_IND>>)
         => ret = Str(<<"Y">>)

\* C1 witness: the lower-case key comes first and holds "", the exact key
\* holds 0; getField was asked for CLOSR_IND and returned the exact key's 0.
C1_Witness ==
  /\ call = "getField"
  /\ arg = Obj(<< <<closr_ind, Str(<<>>)>>, <<CLOSR_IND, Num(FALSE, <<"0">>, <<>>)>> >>)
  /\ cand = <<CLOSR_IND>>
  /\ ret = Num(FALSE, <<"0">>, <<>>)

\* v, as a string, is "Y" or "y" with nothing but white space around it.
IsYes(v) ==
  LET s == String(v)
  IN  \E i \in DOMAIN s :
        /\ s[i] \in {"y", "Y"}
        /\ \A j \in DOMAIN s : j # i => s[j] \in WhiteSpace

YesValues == {Str(<<"Y">>), Str(<<"y">>), Str(<<" ","Y"," ">>)}

\* Some key of the bag is CLOSURE_IND or CLOSR_IND up to case and holds one
\* of the three values.
HoldsYes(bag) ==
  \E i \in DOMAIN bag.kv :
    /\ toLowerCase(bag.kv[i][1]) \in {toLowerCase(CLOSURE_IND), toLowerCase(CLOSR_IND)}
    /\ bag.kv[i][2] \in YesValues

\* C2 as stated, on bags with no properties entry: a bag that holds
\* CLOSURE_IND or CLOSR_IND with the value
\* "y", "Y" or " Y " is closed, and every other bag ("N", "", no indicator,
\* any other string) is not.
C2_AsStated ==
  (call = "isClosed" /\ IsPlainBag(arg)) => (ret <=> HoldsYes(arg))

\* C2, amended: on a bag with no properties entry, isClosed is decided by
\* the one indicator that getField resolves from [CLOSURE_IND, CLOSR_IND]
\* (CLOSURE_IND first): true iff that
\* value, as a string, is "Y" or "y" with only white space around it, so
\* also " y"; false for "N", "", other text, a number, or no indicator.
C2_IsClosedResolvedYes ==
  (call = "isClosed" /\ IsPlainBag(arg)) =>
    LET ind == FirstResolved(arg, <<CLOSURE_IND, CLOSR_IND>>)
    IN  /\ ret <=> (~IsNullish(ind) /\ IsYes(ind))
        /\ (Len(arg.kv) = 1 /\ arg.kv[1][1] \in IndicatorKeys /\ arg.kv[1][2] \in YesValues) => ret
        /\ (\A i \in DOMAIN arg.kv :
              arg.kv[i][2] \in {Null, Str(<<"N">>), Str(<<>>), Str(<<"a","b","c">>), Num(FALSE, <<"0">>, <<>>)}) => ~ret

\* C2 witness: CLOSURE_IND is "N" and CLOSR_IND is "Y"; isClosed said no.
C2_Witness ==
  /\ call = "isClosed"
  /\ arg = Obj(<< <<CLOSR_IND, Str(<<"Y">>)>>, <<CLOSURE_IND, Str(<<"N">>)>> >>)
  /\ ret = FALSE

\* A number above zero: not NaN, not negative, some digit not 0.
IsPositive(n) ==
  /\ n.t = "number"
  /\ ~n.nan
  /\ ~n.neg
  /\ \E i \in DOMAIN (n.int \o n.frac) : (n.int \o n.frac)[i] # "0"

\* C3: on a bag with no properties entry, isCampsite is true iff the
\* resolved campsite count (DEFINED_CAMPSITES
\* or DFND_CAMP), parsed as a decimal when it is a string, is a number
\* above zero; false for "0", 0, -1, "abc" and no count, true for "1", 2.5
\* and 100.
C3_IsCampsitePositiveCount ==
  (call = "isCampsite" /\ IsPlainBag(arg)) =>
    LET n == FirstResolved(arg, <<DEFINED_CAMPSITES, DFND_CAMP>>)
        m == IF n.t = "string" THEN parseFloat(n.s) ELSE n
    IN  /\ ret <=> (~IsNullish(n) /\ IsPositive(m))
        /\ (Len(arg.kv) = 1 /\ arg.kv[1][1] \in CountKeys) =>
             /\ arg.kv[1][2] \in {Str(<<"0">>), Num(FALSE, <<"0">>, <<>>), Num(TRUE, <<"1">>, <<>>), Str(<<"a","b","c">>), Null} => ~ret
             /\ arg.kv[1][2] \in {Str(<<"1">>), Num(FALSE, <<"2">>, <<"5">>), Num(FALSE, <<"1","0","0">>, <<>>)} => ret
        /\ arg.kv = <<>> => ~ret

\* C3 witness: DEFINED_CAMPSITES is 0 and DFND_CAMP is "1"; the resolved
\* count is the 0 and isCampsite said no.
C3_Witness ==
  /\ call = "isCampsite"
  /\ arg = Obj(<< <<DFND_CAMP, Str(<<"1">>)>>, <<DEFINED_CAMPSITES, Num(FALSE, <<"0">>, <<>>)>> >>)
  /\ ret = FALSE

\* n > 1,000,000,000, read off the digits: 1000000000 is the least number
\* with ten integer digits.
Above1e9(n) ==
  /\ ~n.nan
  /\ ~n.neg
  /\ \/ Len(n.int) > 10
     \/ /\ Len(n.int) = 10
        /\ (n.int # <<"1","0","0","0","0","0","0","0","0","0">> \/ n.frac # <<>>)

\* |n| > 1,000,000,000
MagnitudeAbove1e9(n) == ~n.nan /\ Above1e9([n EXCEPT !.neg = FALSE])

\* C9 as stated: "", null and undefined give ""; every other input gives a
\* non-empty result; when neither reading gives a valid date the result is
\* the value's string.
C9_AsStated ==
  call = "formatClosureDate" =>
    /\ arg \in {Str(<<>>), Null, Undefined} => ret = <<>>
    /\ arg \notin {Str(<<>>), Null, Undefined} => ret # <<>>
    /\ (arg \notin {Str(<<>>), Null, Undefined}
          /\ ~DateFromNumber(Number(String(arg))).valid
          /\ ~DateFromString(String(arg)).valid) => ret = String(arg)

\* C9, amended: every falsy input gives "" ("", null, undefined, and also
\* the numbers 0 and NaN); every other input gives a non-empty result, and
\* when neither reading gives a valid date, or the Date built is invalid,
\* the result is the value's string unchanged.
C9_FormatNeverEmptyForTruthy ==
  call = "formatClosureDate" =>
    /\ ~Truthy(arg) => ret = <<>>
    /\ Truthy(arg) => ret # <<>>
    /\ (Truthy(arg)
          /\ ~DateFromNumber(Number(String(arg))).valid
          /\ ~DateFromString(String(arg)).valid) => ret = String(arg)
    /\ (via = "epoch" /\ MagLess(TimeClipMax, Number(String(arg)))) => ret = String(arg)
    /\ arg = Str(<<"n","o","t"," ","a"," ","d","a","t","e">>) => ret = String(Str(<<"n","o","t"," ","a"," ","d","a","t","e">>))

\* C9 witness: "not a date" came back unchanged.
C9_Witness ==
  /\ call = "formatClosureDate"
  /\ arg = Str(<<"n","o","t"," ","a"," ","d","a","t","e">>)
  /\ ret = String(Str(<<"n","o","t"," ","a"," ","d","a","t","e">>))
  /\ via = "parse"

\* C10 as stated: epoch milliseconds exactly when the numeric conversion
\* succeeds and the magnitude of the number exceeds 1,000,000,000; in every
\* other case the raw string is parsed as a calendar date.
C10_AsStated ==
  call = "formatClosureDate" =>
    LET n == Number(String(arg))
    IN  /\ via = "epoch" <=> MagnitudeAbove1e9(n)
        /\ ~MagnitudeAbove1e9(n) => via = "parse"

\* C10, amended: for a truthy input, epoch milliseconds exactly when the
\* numeric conversion of its string succeeds and the number is greater
\* than 1,000,000,000 (a signed comparison: no negative number is read as
\* an epoch), else the raw string is parsed as a calendar date; a falsy
\* input is read neither way.
C10_EpochIffAboveThreshold ==
  call = "formatClosureDate" =>
    LET n == Number(String(arg))
    IN  /\ Truthy(arg) => (via = "epoch" <=> Above1e9(n))
        /\ (Truthy(arg) /\ ~Above1e9(n)) => via = "parse"
        /\ ~Truthy(arg) => via = "none"

\* C10 witness: -2000000000 was parsed as a string, 1000000001 as an epoch.
C10_Witness ==
  /\ call = "formatClosureDate"
  /\ arg = Num(TRUE, <<"2","0","0","0","0","0","0","0","0","0">>, <<>>)
  /\ via = "parse"

(***************************************************************************)
(* The popup formatter: what the spec says of it                           *)
(***************************************************************************)
\* The place of each segment in the popup.
SegmentRank ==
  [name |-> 1, status |-> 2, reason |-> 3, since |-> 4, comment |-> 5,
   campsites |-> 6, location |-> 7, description |-> 8, directions |-> 9,
   betaLink |-> 10, oldLink |-> 11]

HasSegment(popup, seg) == \E i \in DOMAIN popup : popup[i].seg = seg

SegmentText(popup, seg) == popup[CHOOSE i \in DOMAIN popup : popup[i].seg = seg].text

\* sub occurs in s.
Contains(s, sub) ==
  \E i \in 1..(Len(s) - Len(sub) + 1) : SubSeq(s, i, i + Len(sub) - 1) = sub

\* The value a popup slot shows for a bag: as onEachFeature finds it (the
\* first candidate that resolves, exact key or not), or as buildPopupHtml
\* finds it (the exact keys only).
SlotValue(how, bag, names) ==
  IF ~IsBag(bag) THEN Undefined
  ELSE IF how = "onEachFeature" THEN FirstResolved(bag, names)
  ELSE LET ok == {k \in DOMAIN names :
                    \E i \in DOMAIN bag.kv :
                      bag.kv[i][1] = names[k] /\ Truthy(bag.kv[i][2])}
       IN  IF ok = {} THEN Undefined
           ELSE Get(bag, names[CHOOSE k \in ok : \A j \in ok : k <= j])

\* Present: neither absent nor empty.
IsPresent(v) == ~IsNullish(v) /\ v # Str(<<>>) /\ (v.t = "number" => ~IsZero(v))

\* An optional segment is in the popup exactly when its value is present,
\* and then shows that value.
ShowsIff(popup, seg, cond, v) ==
  /\ HasSegment(popup, seg) <=> (cond /\ IsPresent(v))
  /\ HasSegment(popup, seg) => SegmentText(popup, seg) = String(v)

\* C11: the popup of a feature holds its segments in the fixed order name,
\* status, reason, date, comment, campsite count, location, description,
\* directions, two links.  Name and status are always there, the name being
\* the generic label when none is stored and the status that of the bag's
\* closure indicator (for a bag with no key named properties); reason, date
\* and comment exactly under the status CLOSED and with a value for them;
\* every other segment exactly when
\* its value is stored, the count whenever it is neither null nor undefined
\* (so also 0, and "" with nothing after the label); both links carry the
\* site id; no other segment is empty and none reads "undefined".  A bag
\* with only a name and the id REC5810 gives name, status and the two links.
C11_PopupSegmentsInOrder ==
  call \in {"onEachFeature", "buildPopupHtml"} =>
    LET ind    == SlotValue(call, arg, <<CLOSURE_IND, CLOSR_IND>>)
        closed == HasSegment(ret, "status") /\ SegmentText(ret, "status") = StatusClosed
        name   == SlotValue(call, arg, <<PROJECT_NAME, PROJECT_NM>>)
        count  == IF call = "onEachFeature" \/ ~IsBag(arg)
                    THEN SlotValue(call, arg, <<DEFINED_CAMPSITES, DFND_CAMP>>)
                    ELSE Coalesce(Get(arg, DEFINED_CAMPSITES), Get(arg, DFND_CAMP))
        id     == SlotValue(call, arg, <<FOREST_FILE_ID, F_FILE_ID>>)
    IN  /\ \A i, j \in DOMAIN ret :
             i < j => SegmentRank[ret[i].seg] < SegmentRank[ret[j].seg]
        /\ HasSegment(ret, "name") /\ HasSegment(ret, "status")
        /\ SegmentText(ret, "name") = (IF IsPresent(name) THEN String(name) ELSE UnnamedSite.s)
        /\ SegmentText(ret, "status") \in {StatusClosed, StatusOpen}
        /\ (IsBag(arg) /\ IsNullish(Get(arg, properties))) =>
             (closed <=> (~IsNullish(ind) /\ IsYes(ind)))
        /\ ShowsIff(ret, "reason", closed, SlotValue(call, arg, <<CLOSURE_TYPE, CLOSR_TYPE>>))
        /\ HasSegment(ret, "since") <=>
             (closed /\ IsPresent(SlotValue(call, arg, <<CLOSURE_DATE, CLOSR_DT>>)))
        /\ ShowsIff(ret, "comment", closed, SlotValue(call, arg, <<CLOSURE_COMMENT, CLOSR_COM>>))
        /\ HasSegment(ret, "campsites") <=> ~IsNullish(count)
        /\ HasSegment(ret, "campsites") => SegmentText(ret, "campsites") = String(count)
        /\ ShowsIff(ret, "location", TRUE, SlotValue(call, arg, <<SITE_LOCATION, SITE_LOC>>))
        /\ ShowsIff(ret, "description", TRUE, SlotValue(call, arg, <<SITE_DESCRIPTION, ST_DESC>>))
        /\ ShowsIff(ret, "directions", TRUE, SlotValue(call, arg, <<DRIVING_DIRECTIONS, DRV_DIRCTN>>))
        /\ ShowsIff(ret, "betaLink", TRUE, id)
        /\ ShowsIff(ret, "oldLink", TRUE, id)
        /\ \A i \in DOMAIN ret :
             /\ ~Contains(ret[i].text, String(Undefined))
             /\ ret[i].seg # "campsites" => ret[i].text # <<>>
        /\ arg = Obj(<< <<PROJECT_NAME, Str(<<"L","a","k","e">>)>>, <<FOREST_FILE_ID, Str(<<"R","E","C","5","8","1","0">>)>> >>) =>
             ret = <<Segment("name", <<"L","a","k","e">>), Segment("status", StatusOpen),
                     Segment("betaLink", <<"R","E","C","5","8","1","0">>), Segment("oldLink", <<"R","E","C","5","8","1","0">>)>>

\* C11 witness: onEachFeature was given a feature with only the name Lake
\* and the site id REC5810 and built name, status and the two links.
C11_Witness ==
  /\ call = "onEachFeature"
  /\ arg = Obj(<< <<PROJECT_NAME, Str(<<"L","a","k","e">>)>>, <<FOREST_FILE_ID, Str(<<"R","E","C","5","8","1","0">>)>> >>)
  /\ Len(ret) = 4
  /\ ret[4] = Segment("oldLink", <<"R","E","C","5","8","1","0">>)

\* C12: a classifier gives the same answer on a feature as on the
\* feature's property bag, whatever the bag: missing, or holding a key
\* named properties.
C12_AsStated ==
  /\ call = "isClosedOnFeature" => ret = isClosed(arg)
  /\ call = "isCampsiteOnFeature" => ret = isCampsite(arg)

(***************************************************************************)
(* The page: payloads                                                      *)
(***************************************************************************)
\* The largest number of entries of a fetched features array.
MaxFeatures == 2

OpenCampsite == Feature(Obj(<< <<DEFINED_CAMPSITES, Str(<<"3">>)>> >>), Point)

ClosedCampsite ==
  Feature(Obj(<< <<DFND_CAMP, Num(FALSE, <<"2">>, <<>>)>>, <<closr_ind, Str(<<" ","y">>)>> >>), Point)

ClosedDayUse ==
  Feature(Obj(<< <<DEFINED_CAMPSITES, Num(FALSE, <<"0">>, <<>>)>>, <<CLOSURE_IND, Str(<<"Y">>)>> >>), Point)

UnlocatedCampsite == Feature(Obj(<< <<DFND_CAMP, Str(<<"1">>)>> >>), Null)

\* The entries a primary features array may hold; null is a malformed one.
SiteEntries == {OpenCampsite, ClosedCampsite, ClosedDayUse, UnlocatedCampsite, Null}

CrownPolygon == Feature(Obj(<<>>), Point)

CrownEntries == {CrownPolygon, Null}

FeatureCollection(items) == Obj(<< <<features, Arr(items)>> >>)

ArraysOver(E) == UNION {[1..n -> E] : n \in 0..MaxFeatures}

\* Payloads that are not an object with an array-valued features field.
BadPayloads == {Null, Str(<<"o","o","p","s">>), Obj(<<>>), Obj(<< <<features, Str(<<"o","o","p","s">>)>> >>)}

\* Two more entries for the scripts without the Crown-land overlay: a closed
\* campsite whose property bag has a key named properties, and a feature
\* with a geometry and no property bag.
NestedClosedCampsite ==
  Feature(Obj(<< <<CLOSURE_IND, Str(<<"Y">>)>>, <<DEFINED_CAMPSITES, Str(<<"2">>)>>,
                 <<properties, Str(<<"2">>)>> >>), Point)

NoPropertiesFeature == Feature(Null, Point)

OddEntries == {NestedClosedCampsite, NoPropertiesFeature}

\* The entries of the script that reads LATITUDE and LONGITUDE: an open and
\* a closed site with coordinates (as text and as numbers), a site whose
\* latitude is not a number, one without coordinates, and null.
LATITUDE == <<"L","A","T","I","T","U","D","E">>

LONGITUDE == <<"L","O","N","G","I","T","U","D","E">>

LatLngOpen ==
  Feature(Obj(<< <<LATITUDE, Str(<<"4","9",".","5">>)>>,
                 <<LONGITUDE, Num(TRUE, <<"1","2","3">>, <<>>)>> >>), Null)

LatLngClosed ==
  Feature(Obj(<< <<LATITUDE, Num(FALSE, <<"5","0">>, <<>>)>>,
                 <<LONGITUDE, Str(<<"-","1","2","0">>)>>,
                 <<CLOSR_IND, Str(<<"y">>)>> >>), Null)

LatLngUnparsable ==
  Feature(Obj(<< <<LATITUDE, Str(<<"a","b","c">>)>>,
                 <<LONGITUDE, Num(TRUE, <<"1","2","0">>, <<>>)>> >>), Null)

LatLngEntries == {LatLngOpen, LatLngClosed, LatLngUnparsable, OpenCampsite, Null}

\* The entries a script may be handed; the script with two sources gets
\* the smallest choice, its Crown-land payloads being enumerated as well.
EntriesOf(v) ==
  CASE v = "latlng" -> LatLngEntries
    [] v = "crown"  -> SiteEntries \ {UnlocatedCampsite}
    [] OTHER        -> SiteEntries \cup OddEntries

SitePayloadsOf(v) ==
  BadPayloads \cup {FeatureCollection(a) : a \in ArraysOver(EntriesOf(v))}

\* The largest number of entries of a fetched Crown-land features array.
MaxCrownFeatures == 1

CrownPayloads ==
  BadPayloads \cup
    {FeatureCollection(a) : a \in UNION {[1..n -> CrownEntries] : n \in 0..MaxCrownFeatures}}

\* !data || !Array.isArray(data.features)
InvalidStructure(data) == ~Truthy(data) \/ Get(data, features).t # "array"

(***************************************************************************)
(* The page: Leaflet layers                                                *)
(***************************************************************************)
\* isClosed and isCampsite of every entry a features array may hold: the
\* values of the two functions, computed once per entry.
closedOf == [f \in SiteEntries \cup CrownEntries \cup OddEntries |-> isClosed(f)]

campsiteOf == [f \in SiteEntries \cup CrownEntries \cup OddEntries |-> isCampsite(f)]

\* The popup onEachFeature binds to the layer of each entry that can be
\* given one, computed once per entry.
popupOf == [f \in (SiteEntries \cup OddEntries) \ {Null} |-> onEachFeature(f)]

\* The filter option of a layer: main.js gives openLayer and closedLayer
\* one, the other variants give none.
Passes(filter, feature) ==
  CASE filter = "open"   -> ~closedOf[feature]
    [] filter = "closed" -> closedOf[feature]
    [] OTHER             -> TRUE

\* L.GeoJSON.addData on an array: each entry with a geometry set is added
\* when it passes the layer's filter; reading .geometry of a null or
\* undefined entry throws, with the entries before it already added.
RECURSIVE addData(_, _)
addData(items, filter) ==
  IF items = <<>> THEN [added |-> <<>>, threw |-> FALSE]
  ELSE LET feature == Head(items)
       IN  IF IsNullish(feature) THEN [added |-> <<>>, threw |-> TRUE]
           ELSE LET rest == addData(Tail(items), filter)
                IN  IF Truthy(Get(feature, geometry)) /\ Passes(filter, feature)
                      THEN [added |-> <<feature>> \o rest.added, threw |-> rest.threw]
                      ELSE rest

\* Array.prototype.filter with one of the script's callbacks.
filterCampsite(items) == SelectSeq(items, LAMBDA f : campsiteOf[f])

filterOpen(items) == SelectSeq(items, LAMBDA f : ~closedOf[f])

filterClosed(items) == SelectSeq(items, LAMBDA f : closedOf[f])

(***************************************************************************)
(* The page: the load handlers                                             *)
(***************************************************************************)
Variants == {"main", "campsites", "crown", "latlng"}

\* The checkboxes a variant listens to.
Boxes(v) == IF v = "crown" THEN {"open", "closed", "crown"} ELSE {"open", "closed"}

\* The array the callback works on: main.js takes data.features as it is,
\* the other variants keep the campsites of it.
sitesOf(items) == IF variant = "main" THEN items ELSE filterCampsite(items)

\* openLayer.addData: main.js hands over the whole array and lets the
\* layer's filter choose, the other variants hand over the open features.
addOpen(sites) ==
  addData(IF variant = "main" THEN sites ELSE filterOpen(sites),
          IF variant = "main" THEN "open" ELSE "none")

\* closedLayer.addData, likewise.
addClosed(sites) ==
  addData(IF variant = "main" THEN sites ELSE filterClosed(sites),
          IF variant = "main" THEN "closed" ELSE "none")

\* map.fitBounds on the bounds of the layers of group: empty bounds are
\* not valid, fitBounds throws and the handler warns.
fitBounds(group, out) ==
  [out EXCEPT !.fitted = fitted \/ group # <<>>,
              !.log    = IF group = <<>> THEN log \cup {<<"sites", "nofit">>} ELSE log]

\* The rest of the callback once the structure check has passed, given what
\* the two addData calls did.  Reading .properties of a null first entry
\* throws before any layer is touched; a throw leaves what was added so far
\* and goes to the chain's catch, which logs it in the same turn.
render(sites, opened, closed) ==
  LET caught == [openLayer |-> openLayer, closedLayer |-> closedLayer,
                 onMap |-> onMap, fitted |-> fitted,
                 pc |-> "failed", log |-> log \cup {<<"sites", "catch">>}]
  IN  IF sites # <<>> /\ IsNullish(sites[1])
        THEN caught
      ELSE IF opened.threw
        THEN [caught EXCEPT !.openLayer = openLayer \o opened.added]
      ELSE IF closed.threw
        THEN [caught EXCEPT !.openLayer = openLayer \o opened.added,
                            !.closedLayer = closedLayer \o closed.added]
      ELSE fitBounds(openLayer \o opened.added \o closedLayer \o closed.added
                       \o (IF variant = "crown" THEN crownLayer ELSE <<>>),
                     [openLayer |-> openLayer \o opened.added,
                      closedLayer |-> closedLayer \o closed.added,
                      onMap |-> onMap \cup {"open", "closed"},
                      fitted |-> fitted, pc |-> "done", log |-> log])

renderSites(sites) == render(sites, addOpen(sites), addClosed(sites))

\* A coordinate property as the marker loop reads it: a string goes
\* through parseFloat, anything else is taken as it is.
coordinate(v) == IF v.t = "string" THEN parseFloat(v.s) ELSE v

\* typeof v === "number" && !Number.isNaN(v)
IsCoordinate(v) == v.t = "number" /\ ~v.nan

\* What one turn of the marker loop makes of an entry: whether it gets a
\* marker, and in which layer.
markerOf ==
  [f \in LatLngEntries |->
     [placed |-> /\ IsCoordinate(coordinate(Get(getProps(f), LATITUDE)))
                 /\ IsCoordinate(coordinate(Get(getProps(f), LONGITUDE))),
      closed |-> isClosedLatLng(getProps(f))]]

\* The popup that turn binds to the marker.
markerPopupOf ==
  [f \in LatLngEntries |-> buildPopupHtml(getProps(f), isClosedLatLng(getProps(f)))]

\* The popup bound to the layer made from a feature: by the onEachFeature
\* option as addData adds the feature, or by the marker loop.
bindPopup(feature) ==
  IF variant = "latlng" THEN markerPopupOf[feature] ELSE popupOf[feature]

\* The callback of the script that builds markers from LATITUDE and
\* LONGITUDE: the loop skips what has no coordinates and throws on nothing,
\* both layers are added to the map, and the view is fitted when some
\* marker was placed.
forEachMarker(items) ==
  LET opened == SelectSeq(items, LAMBDA f : markerOf[f].placed /\ ~markerOf[f].closed)
      closed == SelectSeq(items, LAMBDA f : markerOf[f].placed /\ markerOf[f].closed)
  IN  [openLayer   |-> openLayer \o opened,
       closedLayer |-> closedLayer \o closed,
       onMap  |-> onMap \cup {"open", "closed"},
       fitted |-> fitted \/ opened \o closed # <<>>,
       pc     |-> "done",
       log    |-> IF opened \o closed = <<>> THEN log \cup {<<"sites", "nofit">>} ELSE log]

\* The second then-callback of the primary fetch, run on a parsed payload:
\* the new values of what it writes.
thenSites(data) ==
  IF InvalidStructure(data)
    THEN [openLayer |-> openLayer, closedLayer |-> closedLayer,
          onMap |-> onMap, fitted |-> fitted,
          pc |-> "done", log |-> log \cup {<<"sites", "invalid">>}]
  ELSE IF variant = "latlng"
    THEN forEachMarker(Get(data, features).items)
    ELSE renderSites(sitesOf(Get(data, features).items))

\* The second then-callback of the Crown-land fetch.
thenCrown(data) ==
  LET items == Get(data, features).items
      added == addData(items, "none")
  IN  IF ~Truthy(data)
        THEN [crownLayer |-> crownLayer, pc |-> "done", log |-> log]
      ELSE IF InvalidStructure(data)
        THEN [crownLayer |-> crownLayer, pc |-> "done",
              log |-> log \cup {<<"crown", "invalid">>}]
      ELSE IF added.threw
        THEN [crownLayer |-> crownLayer \o added.added, pc |-> "failed",
              log |-> log \cup {<<"crown", "catch">>}]
      ELSE [crownLayer |-> crownLayer \o added.added, pc |-> "done", log |-> log]

PureIdle ==
  /\ arg = Undefined /\ cand = <<>> /\ call = "none"
  /\ ret = Undefined /\ via = "none" /\ lenientDates = FALSE

\* The state once the script has run: both fetches are under way, the
\* layers are empty and off the map, the listeners are attached.  The
\* checkboxes start as the page's markup has them.
Init ==
  /\ PureIdle
  /\ variant \in Variants
  /\ sitesPc = "fetching" /\ sitesRes = "none" /\ sitesData = Undefined
  /\ crownPc = (IF variant = "crown" THEN "fetching" ELSE "none")
  /\ crownRes = "none" /\ crownData = Undefined
  /\ openLayer = <<>> /\ closedLayer = <<>> /\ crownLayer = <<>>
  /\ popups = [open |-> <<>>, closed |-> <<>>]
  /\ onMap = {} /\ fitted = FALSE
  /\ checked \in [{"open", "closed", "crown"} -> BOOLEAN]
  /\ changed = {}
  /\ variant # "crown" => ~checked["crown"]
  /\ log = {}
  /\ requests = [s \in {"sites", "crown"} |->
                   IF s = "sites" \/ variant = "crown" THEN 1 ELSE 0]

\* The primary fetch settles: a network error goes to the catch; a response
\* goes to the first then-callback, which logs a non-OK status and reads
\* the body all the same.
SitesResponse ==
  /\ sitesPc = "fetching"
  /\ \E res \in {"neterr", "ok", "notok"} :
       /\ sitesRes' = res
       /\ sitesPc' = (IF res = "neterr" THEN "failed" ELSE "reading")
       /\ log' = (CASE res = "neterr" -> log \cup {<<"sites", "catch">>}
                    [] res = "notok"  -> log \cup {<<"sites", "http">>}
                    [] OTHER          -> log)
  /\ UNCHANGED <<pureVars, variant, sitesData, crownPc, crownRes, crownData,
                 openLayer, closedLayer, crownLayer, popups, onMap, fitted,
                 checked, changed, requests>>

\* The primary chain ends with these values written.
SitesSettle(new) ==
  /\ sitesPc' = new.pc
  /\ log' = new.log
  /\ openLayer' = new.openLayer
  /\ closedLayer' = new.closedLayer
  /\ popups' = [open   |-> [i \in DOMAIN new.openLayer |-> bindPopup(new.openLayer[i])],
                 closed |-> [i \in DOMAIN new.closedLayer |-> bindPopup(new.closedLayer[i])]]
  /\ onMap' = new.onMap
  /\ fitted' = new.fitted

\* res.json() settles with this body: a body that is not JSON goes to the
\* catch, a parsed payload to the second then-callback.
SitesBodyWith(body) ==
  /\ sitesPc = "reading"
  /\ sitesData' = body
  /\ IF body = NotJson
       THEN /\ sitesPc' = "failed"
            /\ log' = log \cup {<<"sites", "catch">>}
            /\ UNCHANGED <<openLayer, closedLayer, popups, onMap, fitted>>
       ELSE SitesSettle(thenSites(body))
  /\ UNCHANGED <<pureVars, variant, sitesRes, crownPc, crownRes, crownData,
                 crownLayer, checked, changed, requests>>

\* A primary load that waits for the Crown-land load to have succeeded.
SitesBodyAfterCrown ==
  /\ crownPc = "done" /\ crownRes = "ok"
  /\ sitesPc = "reading"
  /\ \E body \in SitePayloadsOf(variant) \cup {NotJson} : SitesBodyWith(body)

SitesBody ==
  /\ sitesPc = "reading"
  /\ \E body \in SitePayloadsOf(variant) \cup {NotJson} : SitesBodyWith(body)

\* The Crown-land fetch settles: a network error goes to the catch; a
\* non-OK response is logged and null handed on, which the second callback
\* drops at once; an OK response has its body read.
CrownResponse ==
  /\ crownPc = "fetching"
  /\ \E res \in {"neterr", "ok", "notok"} :
       /\ crownRes' = res
       /\ crownPc' = (CASE res = "neterr" -> "failed"
                        [] res = "notok"  -> thenCrown(Null).pc
                        [] OTHER          -> "reading")
       /\ crownData' = (IF res = "notok" THEN Null ELSE crownData)
       /\ log' = (CASE res = "neterr" -> log \cup {<<"crown", "catch">>}
                    [] res = "notok"  -> thenCrown(Null).log \cup {<<"crown", "http">>}
                    [] OTHER          -> log)
  /\ UNCHANGED <<pureVars, variant, sitesPc, sitesRes, sitesData,
                 openLayer, closedLayer, crownLayer, popups, onMap, fitted,
                 checked, changed, requests>>

CrownBody ==
  /\ crownPc = "reading"
  /\ \E body \in CrownPayloads \cup {NotJson} :
       /\ crownData' = body
       /\ IF body = NotJson
            THEN /\ crownPc' = "failed"
                 /\ log' = log \cup {<<"crown", "catch">>}
                 /\ UNCHANGED crownLayer
            ELSE LET new == thenCrown(body)
                 IN  /\ crownPc' = new.pc
                     /\ log' = new.log
                     /\ crownLayer' = new.crownLayer
  /\ UNCHANGED <<pureVars, variant, sitesPc, sitesRes, sitesData, crownRes,
                 openLayer, closedLayer, popups, onMap, fitted, checked, changed,
                 requests>>

(***************************************************************************)
(* The page: the checkbox listeners                                        *)
(***************************************************************************)
\* The listener of the closed checkbox wired to openLayer.
layerOfSwapped(box) == IF box = "closed" THEN "open" ELSE box

\* The layer a checkbox's listener adds and removes: showFree openLayer,
\* showPaid closedLayer, showCrown crownLayer.
layerOf(box) == box

\* A change event: the browser has flipped the checkbox, and the listener
\* adds the layer to the map when it is checked and removes it otherwise.
Change(box) ==
  /\ box \in Boxes(variant)
  /\ checked' = [checked EXCEPT ![box] = ~checked[box]]
  /\ onMap' = (IF checked'[box] THEN onMap \cup {layerOf(box)}
               ELSE onMap \ {layerOf(box)})
  /\ changed' = changed \cup ({box} \cap {"open", "closed"})
  /\ UNCHANGED <<pureVars, variant, sitesPc, sitesRes, sitesData, crownPc, crownRes,
                 crownData, openLayer, closedLayer, crownLayer, popups, fitted, log,
                 requests>>

ChangeOpen == Change("open")

ChangeClosed == Change("closed")

ChangeCrown == Change("crown")

Next ==
  \/ SitesResponse
  \/ SitesBody
  \/ CrownResponse
  \/ CrownBody
  \/ ChangeOpen
  \/ ChangeClosed
  \/ ChangeCrown

Spec == Init /\ [][Next]_vars

(***************************************************************************)
(* The page: what the spec says of it                                      *)
(***************************************************************************)
\* The payload is an object with an array-valued features field.
IsCollection(data) == data.t = "object" /\ ~InvalidStructure(data)

\* A features entry that is an object with a geometry set.
IsLocated(f) == Truthy(f) /\ Truthy(Get(f, geometry))

\* The open group of a features array: its located entries, in order, that
\* are not closed and, when campsites are filtered, are campsites.
GroupOpen(items, filtering) ==
  SelectSeq(items, LAMBDA f : IsLocated(f) /\ (filtering => isCampsite(f)) /\ ~isClosed(f))

GroupClosed(items, filtering) ==
  SelectSeq(items, LAMBDA f : IsLocated(f) /\ (filtering => isCampsite(f)) /\ isClosed(f))

\* The primary callback has run on the collection of an OK response.
SitesLoadRan ==
  sitesRes = "ok" /\ sitesPc \in {"done", "failed"} /\ IsCollection(sitesData)

\* C4: once the load step has run on a feature collection, openLayer holds
\* the features that are not closed and closedLayer the closed ones, each in
\* the order of the input and no feature in both; with campsite filtering
\* (every variant but main.js) only campsites are in either, without it
\* every feature is in one of the two.  Entries that cannot be drawn (no
\* geometry, or not an object) count as excluded in both modes.  The
\* script that draws markers from coordinates is left to C13.
C4_AsStated ==
  SitesLoadRan /\ variant # "latlng" =>
    LET items == Get(sitesData, features).items
    IN  /\ openLayer = GroupOpen(items, variant # "main")
        /\ closedLayer = GroupClosed(items, variant # "main")
        /\ \A i \in DOMAIN openLayer : \A j \in DOMAIN closedLayer :
             openLayer[i] # closedLayer[j]

\* A step in which the handler of a source takes a payload that is not a
\* collection.
SitesTakesMalformed ==
  sitesPc = "reading" /\ sitesPc' # "reading" /\ sitesData' # NotJson
    /\ ~IsCollection(sitesData')

CrownTakesMalformed ==
  crownPc = "reading" /\ crownPc' # "reading" /\ crownData' # NotJson
    /\ ~IsCollection(crownData')

\* C5: a handler that is given a payload that is not an object with an
\* array-valued features field logs an error and stops: no layer gains a
\* feature, no layer is added to the map and the view is not moved.
C5_AsStated ==
  [][ /\ SitesTakesMalformed =>
           /\ <<"sites", "invalid">> \in log'
           /\ UNCHANGED <<openLayer, closedLayer, crownLayer, onMap, fitted>>
      /\ CrownTakesMalformed =>
           /\ <<"crown", "invalid">> \in log'
           /\ UNCHANGED <<openLayer, closedLayer, crownLayer, onMap, fitted>> ]_vars

\* C6: a source whose fetch failed, by a network error or by a response
\* that is not OK, never has a feature in a layer, and no source is
\* requested more than once.
C6_AsStated ==
  /\ sitesRes \in {"neterr", "notok"} => openLayer = <<>> /\ closedLayer = <<>>
  /\ crownRes \in {"neterr", "notok"} => crownLayer = <<>>
  /\ \A s \in DOMAIN requests : requests[s] <= 1

\* The Crown-land source has failed: the network, the status, a body that
\* is not JSON, a payload that is not a collection, or an entry that made
\* addData throw.
CrownFailed ==
  \/ crownPc = "failed"
  \/ crownRes \in {"neterr", "notok"}
  \/ crownPc = "done" /\ ~IsCollection(crownData)

\* C7: in the variant with the Crown-land overlay, whatever has become of
\* the Crown-land fetch and its failure included, the primary chain is
\* never held up (its response can be taken while it is fetching, its body
\* while it is reading), and the step that takes a primary collection puts
\* its open campsites in openLayer, its closed campsites in closedLayer and
\* both layers on the map.
C7_CrownFailureDoesNotBlockSites ==
  /\ [](variant = "crown" =>
          /\ sitesPc = "fetching" => ENABLED SitesResponse
          /\ sitesPc = "reading" => ENABLED SitesBody)
  /\ [][ (variant = "crown" /\ sitesPc = "reading" /\ sitesPc' # "reading"
            /\ IsCollection(sitesData')) =>
           /\ sitesPc' = "done"
           /\ openLayer' = GroupOpen(Get(sitesData', features).items, TRUE)
           /\ closedLayer' = GroupClosed(Get(sitesData', features).items, TRUE)
           /\ {"open", "closed"} \subseteq onMap' ]_vars

\* C7 witness: the Crown-land fetch failed on the network, and the primary
\* collection is loaded, in both layers and on the map.
C7_Witness ==
  /\ variant = "crown"
  /\ crownRes = "neterr" /\ crownPc = "failed" /\ crownLayer = <<>>
  /\ sitesPc = "done" /\ sitesRes = "ok"
  /\ openLayer # <<>> /\ closedLayer # <<>>
  /\ {"open", "closed"} \subseteq onMap

AllBoxes == {"open", "closed", "crown"}

\* C8: a change event on a checkbox puts its own layer on the map when the
\* box is now checked and takes it off when it is not, leaves the other two
\* layers on or off the map as they were, and leaves the features of all
\* three layers as they were.
C8_TogglesIndependent ==
  [][ \A box \in AllBoxes :
        checked'[box] # checked[box] =>
          /\ (box \in onMap') <=> checked'[box]
          /\ \A other \in AllBoxes \ {box} : (other \in onMap') <=> (other \in onMap)
          /\ UNCHANGED <<openLayer, closedLayer, crownLayer>> ]_vars

\* C8 witness: with the sites loaded, the open box has been unchecked and
\* the Crown-land box checked: openLayer is off the map, crownLayer on it,
\* closedLayer where the load put it.
C8_Witness ==
  /\ variant = "crown"
  /\ sitesPc = "done" /\ openLayer # <<>> /\ closedLayer # <<>>
  /\ ~checked["open"] /\ "open" \notin onMap
  /\ checked["crown"] /\ "crown" \in onMap
  /\ "closed" \in onMap

(***************************************************************************)
(* The page: malformed entries, the checkboxes against the load, and the   *)
(* popup against the layer                                                 *)
(***************************************************************************)
\* A features entry as the input format has it: an object with a property
\* bag and a place to draw it at (a geometry, or coordinates for the script
\* that draws markers).
IsWellFormed(f) ==
  /\ f.t = "object"
  /\ Get(f, properties).t = "object"
  /\ IF variant = "latlng"
       THEN /\ IsCoordinate(coordinate(Get(Get(f, properties), LATITUDE)))
            /\ IsCoordinate(coordinate(Get(Get(f, properties), LONGITUDE)))
       ELSE Truthy(Get(f, geometry))

\* The entry is one the variant classifies: every entry where campsites are
\* not filtered, the campsites elsewhere.
InScope(f) == variant \in {"campsites", "crown"} => isCampsite(f)

\* The entries of a layer group.
Layers(group) == {group[i] : i \in DOMAIN group}

\* C13: once the load step has run on a feature collection, no entry
\* without a geometry and no malformed entry (null, not an object, without
\* a property bag) is in openLayer or closedLayer, and the pass was not
\* aborted by such an entry: it ran to its end, and every well-formed entry
\* the variant classifies is in one of the two layers.
C13_AsStated ==
  SitesLoadRan =>
    LET items == Get(sitesData, features).items
    IN  /\ \A f \in Layers(openLayer) \cup Layers(closedLayer) : IsWellFormed(f)
        /\ sitesPc = "done"
        /\ \A i \in DOMAIN items :
             IsWellFormed(items[i]) /\ InScope(items[i]) =>
               items[i] \in Layers(openLayer) \cup Layers(closedLayer)

\* C14: once the primary load has completed, a checkbox of the open or the
\* closed layer that has had at least one change event has its layer on
\* the map exactly when it is checked (its last change event reported
\* checked), whatever the order of the change events and the load; so a
\* layer unchecked before the data arrives is not shown when it arrives.
C14_AsStated ==
  sitesPc = "done" =>
    \A box \in changed \cap {"open", "closed"} :
      (layerOf(box) \in onMap) <=> checked[box]

\* C15: every layer of closedLayer has a popup whose status line is
\* "Status: CLOSED" and every layer of openLayer one whose status line is
\* "Status: Open (check latest info)".
C15_AsStated ==
  /\ \A i \in DOMAIN popups.closed : SegmentText(popups.closed[i], "status") = StatusClosed
  /\ \A i \in DOMAIN popups.open : SegmentText(popups.open[i], "status") = StatusOpen

=============================================================================
